---- MODULE Spec2Model ----
(***************************************************************************)
(* A model of the toy blockchain engine of blockchain_core.py (Block,      *)
(* Blockchain) and of the tamper handler of blockchain_app.py.             *)
(*                                                                         *)
(* Text is a sequence of one-character strings.  A hash value is a record  *)
(* [text, of]: text is what Python holds (the hex digest, or the literal   *)
(* "0" of the genesis block), of is the content that sha256 digested.      *)
(* Keeping the content beside the digest is how the model states the       *)
(* collision resistance of SHA-256: two digests are equal exactly when     *)
(* they digest the same content.  The digest text itself is computed, by a *)
(* small compression function, and is HashLen hex characters long.         *)
(***************************************************************************)
EXTENDS Integers, Sequences, FiniteSets, TLC

\* ------------------------------------------------------------------ bounds
\* The longest chain the model builds (genesis included).
MaxChain == 3
\* The largest difficulty a chain is constructed with.
MaxDifficulty == 2
\* Mining gives up (the call has not returned) beyond this nonce.
MaxNonce == 40

\* ------------------------------------------------------------------ text
Digits == <<"0", "1", "2", "3", "4", "5", "6", "7", "8", "9">>
HexDigits == Digits \o <<"a", "b", "c", "d", "e", "f">>
UpperCase ==
    <<"A", "B", "C", "D", "E", "F", "G", "H", "I", "J", "K", "L", "M",
      "N", "O", "P", "Q", "R", "S", "T", "U", "V", "W", "X", "Y", "Z">>
LowerCase ==
    <<"a", "b", "c", "d", "e", "f", "g", "h", "i", "j", "k", "l", "m",
      "n", "o", "p", "q", "r", "s", "t", "u", "v", "w", "x", "y", "z">>

Range(s) == {s[i] : i \in DOMAIN s}
Pos(s, c) == CHOOSE i \in DOMAIN s : s[i] = c
Chars == Range(Digits) \cup Range(UpperCase) \cup Range(LowerCase) \cup {" ", ":"}

\* The code point of a character (ASCII), as str.encode() yields it.
ord ==
    [c \in Chars |->
        IF c \in Range(Digits) THEN 47 + Pos(Digits, c)
        ELSE IF c \in Range(UpperCase) THEN 64 + Pos(UpperCase, c)
        ELSE IF c \in Range(LowerCase) THEN 96 + Pos(LowerCase, c)
        ELSE IF c = " " THEN 32
        ELSE 58]

\* str(n) of a non-negative integer: its decimal digits.
RECURSIVE str(_)
str(n) ==
    IF n < 10 THEN <<Digits[n + 1]>>
    ELSE str(n \div 10) \o <<Digits[(n % 10) + 1]>>

\* s.lower()
lower(s) ==
    [i \in DOMAIN s |->
        IF s[i] \in Range(UpperCase) THEN LowerCase[Pos(UpperCase, s[i])] ELSE s[i]]

\* s.startswith(p)
startswith(s, p) == Len(p) <= Len(s) /\ SubSeq(s, 1, Len(p)) = p

\* k in s, for strings: k occurs in s as a contiguous substring.
contains(s, k) ==
    \E i \in 0..(Len(s) - Len(k)) : SubSeq(s, i + 1, i + Len(k)) = k

\* '0' * n (the empty string when n <= 0)
Zeros(n) == [i \in 1..n |-> "0"]

\* ------------------------------------------------------------------ hashing
\* The length of a hex digest: 64 for SHA-256, scaled down here so that a
\* difficulty can be as long as, and longer than, the digest.
HashLen == 2

\* The compression state is a number below Modulus.
Modulus == 8191

\* The compression of the encoded content: a left fold over its characters.
RECURSIVE Compress(_, _)
Compress(h, s) ==
    IF s = <<>> THEN h
    ELSE Compress((h * 31 + ord[Head(s)]) % Modulus, Tail(s))

\* The finalisation: the middle bits of the square of the state.
Squeeze(h) == (h * h) \div 64

\* The low 2w bits of n as w hex characters, two bits to a character, so that
\* a character is '0' once in four and mining stays short.
RECURSIVE hex(_, _)
hex(n, w) ==
    IF w = 0 THEN <<>>
    ELSE hex(n \div 4, w - 1) \o <<HexDigits[5 * (n % 4) + 1]>>

\* hashlib.sha256(content.encode()).hexdigest()
sha256_hexdigest(content) ==
    [text |-> hex(Squeeze(Compress(7, content)), HashLen), of |-> content]

\* A string literal held in a hash-typed field.
Literal(s) == [text |-> s, of |-> <<>>]

\* header.hash before mining has finished.
None == [text |-> <<>>, of |-> <<"N", "o", "n", "e">>]

\* ------------------------------------------------------------------ values
GenesisData == <<"G", "e", "n", "e", "s", "i", "s", " ", "B", "l", "o", "c", "k">>
TamperedData == <<"T", "a", "m", "p", "e", "r", "e", "d", " ", "D", "a", "t", "a">>

\* What callers append.
Payloads == {TamperedData, <<"B", "o", "b">>}

\* str(datetime.now()), shortened.
Timestamps == {<<"1", ":", "0">>, <<"1", ":", "1">>}

\* What callers search for.
Keywords ==
    {<<"g", "e", "n", "e", "s", "i", "s">>, <<"B", "O", "B">>, <<"d", "A", "t", "a">>}

\* ------------------------------------------------------------------ Block
\* getattr(block, "mining_time", "N/A") of a block that has not been mined.
NotMined == -1

\* BlockHeader.__init__ starting the nonce at one.
BlockHeader_from_one(index, timestamp, previous_hash, diff) ==
    [index |-> index,
     timestamp |-> timestamp,
     previous_hash |-> previous_hash,
     nonce |-> 1,
     difficulty |-> diff,
     hash |-> None]

\* BlockHeader.__init__ and the first lines of Block.__init__: the draft block,
\* header fields and data in one record.
BlockHeader(index, timestamp, previous_hash, diff) ==
    [index |-> index,
     timestamp |-> timestamp,
     previous_hash |-> previous_hash,
     nonce |-> 0,
     difficulty |-> diff,
     hash |-> None]

Draft(index, timestamp, data, previous_hash, diff) ==
    BlockHeader(index, timestamp, previous_hash, diff)
        @@ [data |-> data, mining_time |-> NotMined]

\* The f-string of Block.calculate_hash: the fields, concatenated.
Content(b) ==
    str(b.index) \o b.timestamp \o b.data \o b.previous_hash.text \o str(b.nonce)

\* Block.calculate_hash
calculate_hash(b) == sha256_hexdigest(Content(b))

\* time.time() - start_time when the block's nonce is tried: the clock is
\* read in ticks of one hash attempt, so it is the number of attempts made.
Elapsed(b) == b.nonce + 1

\* mine_block stepping the nonce once more after the winning attempt.
RECURSIVE mine_block_steps_past(_)
mine_block_steps_past(b) ==
    LET prefix == Zeros(b.difficulty)
        hash_attempt == calculate_hash(b)
    IN  IF startswith(hash_attempt.text, prefix)
        THEN [b EXCEPT !.mining_time = Elapsed(b), !.hash = hash_attempt,
                       !.nonce = @ + 1]
        ELSE IF b.nonce >= MaxNonce THEN b
        ELSE mine_block_steps_past([b EXCEPT !.nonce = @ + 1])

\* mine_block asking for one leading zero fewer.
RECURSIVE mine_block_short_prefix(_)
mine_block_short_prefix(b) ==
    LET prefix == Zeros(b.difficulty - 1)
        hash_attempt == calculate_hash(b)
    IN  IF startswith(hash_attempt.text, prefix)
        THEN [b EXCEPT !.mining_time = Elapsed(b), !.hash = hash_attempt]
        ELSE IF b.nonce >= MaxNonce THEN b
        ELSE mine_block_short_prefix([b EXCEPT !.nonce = @ + 1])

\* Block.mine_block, with the assignment of its result to header.hash: the
\* loop, from the block's current nonce.  The result is the sealed block, or
\* the block still without a hash when no nonce up to MaxNonce seals it.
RECURSIVE mine_block(_)
mine_block(b) ==
    LET prefix == Zeros(b.difficulty)
        hash_attempt == calculate_hash(b)
    IN  IF startswith(hash_attempt.text, prefix)
        THEN [b EXCEPT !.mining_time = Elapsed(b), !.hash = hash_attempt]
        ELSE IF b.nonce >= MaxNonce THEN b
        ELSE mine_block([b EXCEPT !.nonce = @ + 1])

\* Block.__init__: timestamp is str(datetime.now()).
Block(index, data, previous_hash, diff, timestamp) ==
    mine_block(Draft(index, timestamp, data, previous_hash, diff))

\* The constructor has returned.
Sealed(b) == b.hash # None

\* ------------------------------------------------------------------ state
VARIABLES
    difficulty,   \* Blockchain.difficulty
    chain,        \* Blockchain.chain
    call,         \* the last call: its name and arguments
    ret,          \* its return value, as text
    stdout,       \* the lines it printed
    file,         \* the records of blockchain.json (<<>>: no such file)
    tampered,     \* the indexes tamper_block has overwritten
    mining        \* per caller, the frame of its call in progress (<<>>: none)

vars == <<difficulty, chain, call, ret, stdout, file, tampered, mining>>

\* The threads that call into the chain.
Callers == {"t1", "t2"}

\* No call is in progress.
NoFrames == [t \in Callers |-> <<>>]

\* A printed line: which message, and the block and data it names.
Line(msg, block, data) == [msg |-> msg, block |-> block, data |-> data]

Call(name, index, text) == [name |-> name, index |-> index, text |-> text]

\* Blockchain.create_genesis_block
create_genesis_block(diff, timestamp) ==
    Block(0, GenesisData, Literal(<<"0">>), diff, timestamp)

\* get_latest_block returning the first block.
get_latest_block_first(ch) == ch[1]

\* Blockchain.get_latest_block
get_latest_block(ch) == ch[Len(ch)]

\* Blockchain.__init__
Init ==
    \E d \in 0..MaxDifficulty, ts \in Timestamps :
        /\ Sealed(create_genesis_block(d, ts))
        /\ difficulty = d
        /\ chain = <<create_genesis_block(d, ts)>>
        /\ call = Call("__init__", d, <<>>)
        /\ ret = "None"
        /\ stdout = <<>>
        /\ file = <<>>
        /\ tampered = {}
        /\ mining = NoFrames

\* add_block linking the new block to the hash recalculated from the tail.
NewBlock_rehashes_tail(ch, diff, data, timestamp) ==
    LET last_block == get_latest_block(ch)
    IN  Block(Len(ch), data, calculate_hash(last_block), diff, timestamp)

\* add_block numbering the new block from one.
NewBlock_from_one(ch, diff, data, timestamp) ==
    LET last_block == get_latest_block(ch)
    IN  Block(Len(ch) + 1, data, last_block.hash, diff, timestamp)

\* Blockchain.add_block
NewBlock(ch, diff, data, timestamp) ==
    LET last_block == get_latest_block(ch)
    IN  Block(Len(ch), data, last_block.hash, diff, timestamp)

add_block ==
    \E data \in Payloads, ts \in Timestamps :
        LET new_block == NewBlock(chain, difficulty, data, ts)
        IN  /\ Len(chain) < MaxChain
            /\ Sealed(new_block)
            /\ chain' = Append(chain, new_block)
            /\ call' = Call("add_block", -1, data)
            /\ ret' = "None"
            /\ stdout' = <<>>
            /\ UNCHANGED <<difficulty, file, tampered, mining>>

\* ------------------------------------------------------------------ validate
\* The body of the loop of Blockchain.is_chain_valid, for block i: the line
\* it prints.
CheckBlock(ch, i) ==
    LET current == ch[i + 1]
        previous == ch[i]
        recalculated_hash == calculate_hash(current)
    IN  IF current.hash # recalculated_hash
        THEN Line("Invalid hash!", i, <<>>)
        ELSE IF current.previous_hash # previous.hash
        THEN Line("Invalid previous hash!", i, <<>>)
        ELSE Line("Valid.", i, <<>>)

\* The loop leaving at the first block that fails.
RECURSIVE ValidateLoop_short_circuit(_, _, _, _)
ValidateLoop_short_circuit(ch, i, valid, lines) ==
    IF i >= Len(ch) \/ ~valid THEN [valid |-> valid, lines |-> lines]
    ELSE LET line == CheckBlock(ch, i)
         IN  ValidateLoop_short_circuit(ch, i + 1,
                                        IF line.msg = "Valid." THEN valid ELSE FALSE,
                                        Append(lines, line))

\* The loop of Blockchain.is_chain_valid from block i on: valid so far, and
\* the lines printed so far.
RECURSIVE ValidateLoop(_, _, _, _)
ValidateLoop(ch, i, valid, lines) ==
    IF i >= Len(ch) THEN [valid |-> valid, lines |-> lines]
    ELSE LET line == CheckBlock(ch, i)
         IN  ValidateLoop(ch, i + 1,
                          IF line.msg = "Valid." THEN valid ELSE FALSE,
                          Append(lines, line))

\* Blockchain.is_chain_valid, as a function of the chain.
Validate(ch) == ValidateLoop(ch, 1, TRUE, <<>>)

PyBool(b) == IF b THEN "True" ELSE "False"

\* is_chain_valid storing the hash it recalculated.
is_chain_valid_repairs ==
    /\ call' = Call("is_chain_valid", -1, <<>>)
    /\ ret' = PyBool(Validate(chain).valid)
    /\ stdout' = Validate(chain).lines
    /\ chain' = [k \in DOMAIN chain |->
                    IF k = 1 THEN chain[k]
                    ELSE [chain[k] EXCEPT !.hash = calculate_hash(chain[k])]]
    /\ UNCHANGED <<difficulty, file, tampered, mining>>

is_chain_valid ==
    /\ call' = Call("is_chain_valid", -1, <<>>)
    /\ ret' = PyBool(Validate(chain).valid)
    /\ stdout' = Validate(chain).lines
    /\ UNCHANGED <<difficulty, chain, file, tampered, mining>>

\* ------------------------------------------------------------------ search
\* The loop comparing without lower().
RECURSIVE SearchLoop_case_sensitive(_, _, _)
SearchLoop_case_sensitive(ch, keyword, i) ==
    IF i > Len(ch) THEN <<>>
    ELSE LET block == ch[i]
         IN  (IF contains(block.data, keyword)
              THEN <<Line("Found in Block", block.index, block.data)>>
              ELSE <<>>)
             \o SearchLoop_case_sensitive(ch, keyword, i + 1)

\* The loop of Blockchain.search_block: the lines printed for blocks i..
RECURSIVE SearchLoop(_, _, _)
SearchLoop(ch, keyword, i) ==
    IF i > Len(ch) THEN <<>>
    ELSE LET block == ch[i]
         IN  (IF contains(lower(block.data), lower(keyword))
              THEN <<Line("Found in Block", block.index, block.data)>>
              ELSE <<>>)
             \o SearchLoop(ch, keyword, i + 1)

\* Blockchain.search_block, as a function of the chain: what it prints.
Search(ch, keyword) ==
    LET found == SearchLoop(ch, keyword, 1)
    IN  IF found = <<>> THEN <<Line("Keyword not found.", -1, <<>>)>> ELSE found

search_block ==
    \E keyword \in Keywords :
        /\ call' = Call("search_block", -1, keyword)
        /\ ret' = "None"
        /\ stdout' = Search(chain, keyword)
        /\ UNCHANGED <<difficulty, chain, file, tampered, mining>>

\* ------------------------------------------------------------------ tamper
\* tamper_block accepting the genesis block.
TamperBlock_from_zero(index) ==
    IF 0 <= index /\ index < Len(chain)
    THEN /\ chain' = [chain EXCEPT ![index + 1].data = TamperedData]
         /\ stdout' = <<Line("has been tampered.", index, <<>>)>>
         /\ tampered' = tampered \cup {index}
    ELSE /\ stdout' = <<Line("Cannot tamper Genesis block or out-of-range index.", -1, <<>>)>>
         /\ UNCHANGED <<chain, tampered>>

\* tamper_block sealing the block again over the new data.
TamperBlock_reseals(index) ==
    IF 0 < index /\ index < Len(chain)
    THEN LET marked == [chain[index + 1] EXCEPT !.data = TamperedData]
         IN  /\ chain' = [chain EXCEPT
                            ![index + 1] = [marked EXCEPT !.hash = calculate_hash(marked)]]
             /\ stdout' = <<Line("has been tampered.", index, <<>>)>>
             /\ tampered' = tampered \cup {index}
    ELSE /\ stdout' = <<Line("Cannot tamper Genesis block or out-of-range index.", -1, <<>>)>>
         /\ UNCHANGED <<chain, tampered>>

\* Blockchain.tamper_block
TamperBlock(index) ==
    IF 0 < index /\ index < Len(chain)
    THEN /\ chain' = [chain EXCEPT ![index + 1].data = TamperedData]
         /\ stdout' = <<Line("has been tampered.", index, <<>>)>>
         /\ tampered' = tampered \cup {index}
    ELSE /\ stdout' = <<Line("Cannot tamper Genesis block or out-of-range index.", -1, <<>>)>>
         /\ UNCHANGED <<chain, tampered>>

tamper_block ==
    \E index \in -1..Len(chain) :
        /\ TamperBlock(index)
        /\ call' = Call("tamper_block", index, <<>>)
        /\ ret' = "None"
        /\ UNCHANGED <<difficulty, file, mining>>

\* The "Tamper with Block" action of the application: the index comes from
\* a select box over range(len(chain)).
app_tamper ==
    \E tamper_index \in 0..(Len(chain) - 1) :
        /\ call' = Call("Tamper with Block", tamper_index, <<>>)
        /\ ret' = "None"
        /\ IF tamper_index = 0
           THEN /\ stdout' = <<Line("Genesis block cannot be tampered.", -1, <<>>)>>
                /\ UNCHANGED <<chain, tampered>>
           ELSE TamperBlock(tamper_index)
        /\ UNCHANGED <<difficulty, file, mining>>

\* ------------------------------------------------------------------ export
\* block_info writing the hash recalculated from the block.
block_info_rehashed(block) ==
    [index |-> block.index,
     timestamp |-> block.timestamp,
     nonce |-> block.nonce,
     previous_hash |-> block.previous_hash,
     hash |-> calculate_hash(block),
     difficulty |-> block.difficulty,
     data |-> block.data,
     mining_time |-> block.mining_time]

\* The block_info dictionary of Blockchain.save_to_file.
block_info(block) ==
    [index |-> block.index,
     timestamp |-> block.timestamp,
     nonce |-> block.nonce,
     previous_hash |-> block.previous_hash,
     hash |-> block.hash,
     difficulty |-> block.difficulty,
     data |-> block.data,
     mining_time |-> block.mining_time]

\* chain_data, as the loop of Blockchain.save_to_file builds it.
chain_data(ch) == [k \in 1..Len(ch) |-> block_info(ch[k])]

save_to_file ==
    /\ file' = chain_data(chain)
    /\ call' = Call("save_to_file", -1, <<>>)
    /\ ret' = "None"
    /\ stdout' = <<Line("Blockchain saved to", -1, <<>>)>>
    /\ UNCHANGED <<difficulty, chain, tampered, mining>>

\* ------------------------------------------------------------------ system
Next ==
    \/ add_block
    \/ is_chain_valid
    \/ search_block
    \/ tamper_block
    \/ app_tamper
    \/ save_to_file

Spec == Init /\ [][Next]_vars

\* ------------------------------------------------------------------ calls, step by step
\* The frame of a call in progress: the method, the line it has reached, the
\* data it was given, and the block it holds (the tail it read at line 101,
\* then the block it is constructing).
Frame(op, pc, data, block) == [op |-> op, pc |-> pc, data |-> data, block |-> block]

Idle(t) == mining[t] = <<>>
At(t, op, pc) == ~Idle(t) /\ mining[t][1].op = op /\ mining[t][1].pc = pc

\* Mining the draft b is decided within the model: some nonce up to MaxNonce
\* seals it, or none ever can, the prefix being longer than a digest.
Decided(b) == Sealed(mine_block(b)) \/ b.difficulty > HashLen

\* Blockchain.__init__ entered with difficulty d: create_genesis_block has
\* built the draft of the genesis block and mine_block starts.
InitMine ==
    \E d \in 0..(HashLen + 1), ts \in Timestamps :
        /\ Decided(Draft(0, ts, GenesisData, Literal(<<"0">>), d))
        /\ difficulty = d
        /\ chain = <<>>
        /\ call = Call("__init__", d, <<>>)
        /\ ret = "None"
        /\ stdout = <<>>
        /\ file = <<>>
        /\ tampered = {}
        /\ mining = [NoFrames EXCEPT !["t1"] =
                        <<Frame("__init__", "mine", GenesisData,
                                Draft(0, ts, GenesisData, Literal(<<"0">>), d))>>]

\* Line 101 of add_block: the caller reads the tail.
read_tail(t) ==
    \E data \in Payloads :
        /\ Idle(t)
        /\ chain # <<>>
        /\ Len(chain) < MaxChain
        /\ \E ts \in Timestamps :
              Decided(Draft(Len(chain), ts, data, get_latest_block(chain).hash, difficulty))
        /\ mining' = [mining EXCEPT
                        ![t] = <<Frame("add_block", "102", data, get_latest_block(chain))>>]
        /\ UNCHANGED <<difficulty, chain, call, ret, stdout, file, tampered>>

\* The draft entering the chain before it is mined.
begin_mining_appends_draft(t) ==
    \E ts \in Timestamps :
        LET f == mining[t][1]
            draft == Draft(Len(chain), ts, f.data, f.block.hash, difficulty)
        IN  /\ At(t, "add_block", "102")
            /\ Decided(draft)
            /\ mining' = [mining EXCEPT ![t] = <<Frame("add_block", "mine", f.data, draft)>>]
            /\ chain' = Append(chain, draft)
            /\ UNCHANGED <<difficulty, call, ret, stdout, file, tampered>>

\* Line 102 of add_block up to the loop of mine_block: len(self.chain) is
\* read and the draft built.
begin_mining(t) ==
    \E ts \in Timestamps :
        LET f == mining[t][1]
            draft == Draft(Len(chain), ts, f.data, f.block.hash, difficulty)
        IN  /\ At(t, "add_block", "102")
            /\ Decided(draft)
            /\ mining' = [mining EXCEPT ![t] = <<Frame("add_block", "mine", f.data, draft)>>]
            /\ UNCHANGED <<difficulty, chain, call, ret, stdout, file, tampered>>

\* One turn of the loop of mine_block; on a winning attempt the hash is
\* returned and assigned to header.hash (line 41).
mine_step(t) ==
    /\ ~Idle(t)
    /\ mining[t][1].pc = "mine"
    /\ LET f == mining[t][1]
           b == f.block
           hash_attempt == calculate_hash(b)
       IN  IF startswith(hash_attempt.text, Zeros(b.difficulty))
           THEN mining' = [mining EXCEPT
                             ![t] = <<Frame(f.op, "store", f.data,
                                            [b EXCEPT !.mining_time = Elapsed(b),
                                                      !.hash = hash_attempt])>>]
           ELSE /\ b.nonce < MaxNonce
                /\ mining' = [mining EXCEPT
                                ![t] = <<Frame(f.op, "mine", f.data,
                                               [b EXCEPT !.nonce = @ + 1])>>]
    /\ UNCHANGED <<difficulty, chain, call, ret, stdout, file, tampered>>

\* Line 102 of add_block in one step: len(self.chain) is read and the block
\* constructed and mined.
construct_block(t) ==
    \E ts \in Timestamps :
        LET f == mining[t][1]
            new_block == Block(Len(chain), f.data, f.block.hash, difficulty, ts)
        IN  /\ At(t, "add_block", "102")
            /\ Sealed(new_block)
            /\ mining' = [mining EXCEPT ![t] = <<Frame("add_block", "store", f.data, new_block)>>]
            /\ UNCHANGED <<difficulty, chain, call, ret, stdout, file, tampered>>

\* Line 103 of add_block: the block is appended and the call returns.
append_block(t) ==
    /\ At(t, "add_block", "store")
    /\ chain' = Append(chain, mining[t][1].block)
    /\ mining' = [mining EXCEPT ![t] = <<>>]
    /\ call' = Call("add_block", -1, mining[t][1].data)
    /\ ret' = "None"
    /\ stdout' = <<>>
    /\ UNCHANGED <<difficulty, file, tampered>>

\* Line 82 of Blockchain.__init__: the chain is the genesis block.
store_genesis(t) ==
    /\ At(t, "__init__", "store")
    /\ chain' = <<mining[t][1].block>>
    /\ mining' = [mining EXCEPT ![t] = <<>>]
    /\ UNCHANGED <<difficulty, call, ret, stdout, file, tampered>>

\* A synchronous caller: the other methods run between its calls.
Constructed == chain # <<>> /\ Idle("t1")

NextMine ==
    \/ read_tail("t1")
    \/ begin_mining("t1")
    \/ mine_step("t1")
    \/ append_block("t1")
    \/ store_genesis("t1")
    \/ Constructed /\ is_chain_valid
    \/ Constructed /\ search_block
    \/ Constructed /\ tamper_block
    \/ Constructed /\ app_tamper
    \/ Constructed /\ save_to_file

SpecMine == InitMine /\ [][NextMine]_vars

\* Construction and appends alone.  The caller's thread runs: a step of a
\* call in progress that can be taken is taken.
NextLive ==
    \/ read_tail("t1")
    \/ begin_mining("t1")
    \/ mine_step("t1")
    \/ append_block("t1")
    \/ store_genesis("t1")

SpecLive ==
    /\ InitMine
    /\ [][NextLive]_vars
    /\ WF_vars(begin_mining("t1"))
    /\ WF_vars(mine_step("t1"))
    /\ WF_vars(append_block("t1"))
    /\ WF_vars(store_genesis("t1"))

\* Two threads calling add_block on one chain, with nothing between them.
NextRace ==
    \E t \in Callers :
        \/ read_tail(t)
        \/ construct_block(t)
        \/ append_block(t)

SpecRace == Init /\ [][NextRace]_vars

\* ------------------------------------------------------------------ properties
\* Block i of ch (i >= 1) passes the first check of is_chain_valid.
HashOk(ch, i) == ch[i + 1].hash = calculate_hash(ch[i + 1])

\* Block i of ch (i >= 1) passes its second check.
LinkOk(ch, i) == ch[i + 1].previous_hash = ch[i].hash

\* The last call was a tamper of a block in 1..len(chain)-1.
TamperCalls == {"tamper_block", "Tamper with Block"}
Tampered(c, ch) == c.name \in TamperCalls /\ 0 < c.index /\ c.index < Len(ch)

\* The fields of a block other than data.
SameButData(a, b) ==
    /\ a.index = b.index
    /\ a.timestamp = b.timestamp
    /\ a.previous_hash = b.previous_hash
    /\ a.nonce = b.nonce
    /\ a.difficulty = b.difficulty
    /\ a.hash = b.hash
    /\ a.mining_time = b.mining_time

\* C1: a chain that new and add_block built, with no tamper, validates:
\* is_chain_valid returns True on it, and has returned True if it was the
\* last call.
C1_UntamperedChainValidates ==
    tampered = {} =>
        /\ Validate(chain).valid
        /\ call.name = "is_chain_valid" => ret = "True"

C1_Witness ==
    /\ tampered = {}
    /\ Len(chain) >= 3
    /\ difficulty = 2
    /\ call.name = "is_chain_valid"
    /\ ret = "True"

\* C2: after tamper(i) with 0 < i < len(chain), whatever data block i held,
\* is_chain_valid returns False and prints the hash mismatch of block i.
C2_TamperIsDetected ==
    Tampered(call, chain) =>
        /\ ~Validate(chain).valid
        /\ Validate(chain).lines[call.index].msg = "Invalid hash!"

\* C3: tamper_block(index) with index <= 0 or index >= len(chain) prints that
\* it cannot tamper, and the application's handler warns for index 0; neither
\* changes the chain or its difficulty.
C3_InvalidTamperRejected ==
    [][/\ (call'.name = "tamper_block"
             /\ (call'.index <= 0 \/ call'.index >= Len(chain)))
          => /\ chain' = chain
             /\ difficulty' = difficulty
             /\ stdout' = <<Line("Cannot tamper Genesis block or out-of-range index.",
                                 -1, <<>>)>>
       /\ (call'.name = "Tamper with Block" /\ call'.index = 0)
          => /\ chain' = chain
             /\ difficulty' = difficulty
             /\ stdout' = <<Line("Genesis block cannot be tampered.", -1, <<>>)>>
      ]_vars

C3_Witness ==
    /\ call.name = "tamper_block"
    /\ call.index = Len(chain)
    /\ Len(chain) >= 2
    /\ stdout = <<Line("Cannot tamper Genesis block or out-of-range index.", -1, <<>>)>>

\* C4: a tamper of block i, 0 < i < len(chain), sets the data of block i to
\* the marker and changes nothing else: not the other fields of block i, not
\* another block, not the length of the chain, not its difficulty.
C4_TamperChangesOnlyData ==
    [][(call'.name \in TamperCalls /\ 0 < call'.index /\ call'.index < Len(chain))
        => /\ Len(chain') = Len(chain)
           /\ difficulty' = difficulty
           /\ chain'[call'.index + 1].data = TamperedData
           /\ SameButData(chain'[call'.index + 1], chain[call'.index + 1])
           /\ \A k \in DOMAIN chain : k # call'.index + 1 => chain'[k] = chain[k]
      ]_vars

C4_Witness ==
    /\ Tampered(call, chain)
    /\ Len(chain) >= 3
    /\ call.index = 1
    /\ chain[2].data = TamperedData
    /\ ~HashOk(chain, 1)

\* C5: in an untampered chain the genesis block's previous_hash is "0" and
\* every later block's previous_hash is the hash of the block before it.
C5_UntamperedChainLinked ==
    tampered = {} =>
        /\ chain[1].previous_hash = Literal(<<"0">>)
        /\ \A i \in 1..(Len(chain) - 1) : LinkOk(chain, i)

C5_Witness ==
    /\ tampered = {}
    /\ Len(chain) >= 3
    /\ call.name = "add_block"
    /\ chain[3].previous_hash = chain[2].hash
    /\ chain[2].hash # chain[1].hash

\* C6: the chain is never empty and block i carries index i.
C6_IndexIsPosition ==
    /\ Len(chain) >= 1
    /\ \A k \in DOMAIN chain : chain[k].index = k - 1

C6_Witness ==
    /\ Len(chain) >= 3
    /\ chain[3].index = 2
    /\ tampered # {}

\* C7: every stored hash, the genesis block's and a tampered block's
\* included, starts with as many '0' characters as the chain's difficulty.
C7_HashMeetsDifficulty ==
    \A k \in DOMAIN chain :
        /\ chain[k].difficulty = difficulty
        /\ Len(chain[k].hash.text) >= difficulty
        /\ \A j \in 1..difficulty : chain[k].hash.text[j] = "0"

C7_Witness ==
    /\ difficulty = 2
    /\ Len(chain) >= 3
    /\ 2 \in tampered
    /\ chain[3].nonce > 0
    /\ chain[3].hash.text = <<"0", "0">>

\* C8: is_chain_valid prints one line for every block 1..len(chain)-1, failed
\* blocks before it or not; a block's line is "Valid." exactly when its stored
\* hash is the hash of its current fields and its previous_hash is the stored
\* hash of the block before; and the call returns, True exactly when every
\* block passes both checks.
C8_ValidateChecksEveryBlock ==
    call.name = "is_chain_valid" =>
        /\ Len(stdout) = Len(chain) - 1
        /\ \A i \in 1..(Len(chain) - 1) :
              /\ stdout[i].block = i
              /\ stdout[i].msg = "Valid." <=> (HashOk(chain, i) /\ LinkOk(chain, i))
        /\ ret \in {"True", "False"}
        /\ ret = "True" <=> \A i \in 1..(Len(chain) - 1) :
                               HashOk(chain, i) /\ LinkOk(chain, i)

C8_Witness ==
    /\ call.name = "is_chain_valid"
    /\ Len(chain) >= 3
    /\ stdout[1].msg = "Invalid hash!"
    /\ stdout[2].msg = "Valid."
    /\ ret = "False"

\* C9: a tamper of block i in a chain that validated leaves a chain on which
\* is_chain_valid reports block i, and only block i, as failing, by its hash.
C9_ExactlyTheTamperedBlockFails ==
    [][(Validate(chain).valid
          /\ call'.name \in TamperCalls /\ 0 < call'.index /\ call'.index < Len(chain))
        => \A i \in 1..(Len(chain') - 1) :
              Validate(chain').lines[i].msg =
                  IF i = call'.index THEN "Invalid hash!" ELSE "Valid."
      ]_vars

\* C10: is_chain_valid, search_block and save_to_file leave the chain, every
\* field of every block of it, and the difficulty as they were.
C10_ReadOnlyCalls ==
    [][call'.name \in {"is_chain_valid", "search_block", "save_to_file"}
        => chain' = chain /\ difficulty' = difficulty
      ]_vars

C10_Witness ==
    /\ call.name = "is_chain_valid"
    /\ ret = "False"
    /\ file # <<>>
    /\ Len(file) < Len(chain)

\* C12: no step shortens the chain, removes or reorders a block of it (each
\* position keeps its index, timestamp, nonce, hashes and mining time), and
\* the first block stays the genesis block: index 0, previous_hash "0", data
\* "Genesis Block".
C12_ChainOnlyGrows ==
    [][/\ Len(chain') >= Len(chain)
       /\ \A k \in DOMAIN chain : SameButData(chain'[k], chain[k])
       /\ chain'[1] = chain[1]
       /\ chain'[1].index = 0
       /\ chain'[1].previous_hash = Literal(<<"0">>)
       /\ chain'[1].data = GenesisData
      ]_vars

C12_Witness ==
    /\ Len(chain) >= 3
    /\ tampered = {1, 2}
    /\ call.name = "tamper_block"
    /\ call.index = 0
    /\ chain[1].data = GenesisData

\* Text a and text b are equal but for the case of their letters.
SameIgnoringCase(a, b) ==
    /\ Len(a) = Len(b)
    /\ \A i \in DOMAIN a :
          \/ a[i] = b[i]
          \/ \E j \in DOMAIN UpperCase :
                {a[i], b[i]} = {UpperCase[j], LowerCase[j]}

\* Keyword k occurs in text s, ignoring case.
Occurs(k, s) ==
    \E i \in 0..(Len(s) - Len(k)) : SameIgnoringCase(SubSeq(s, i + 1, i + Len(k)), k)

\* C13: search_block(keyword) prints a "Found" line, with index and data, for
\* exactly the blocks whose current data contains the keyword ignoring case,
\* every one of them, in chain order, and "Keyword not found." when there is
\* none; "genesis" on a chain of the genesis block alone finds block 0 only.
C13_SearchFindsEveryMatch ==
    call.name = "search_block" =>
        LET matches == {k \in DOMAIN chain : Occurs(call.text, chain[k].data)}
        IN  /\ matches = {} => stdout = <<Line("Keyword not found.", -1, <<>>)>>
            /\ matches # {} =>
                  /\ Len(stdout) = Cardinality(matches)
                  /\ \A i \in DOMAIN stdout :
                        /\ stdout[i].msg = "Found in Block"
                        /\ stdout[i].block + 1 \in matches
                        /\ stdout[i].data = chain[stdout[i].block + 1].data
                  /\ \A i, j \in DOMAIN stdout :
                        i < j => stdout[i].block < stdout[j].block
            /\ (Len(chain) = 1 /\ call.text = <<"g", "e", "n", "e", "s", "i", "s">>)
                  => stdout = <<Line("Found in Block", 0, GenesisData)>>

C13_Witness ==
    /\ call.name = "search_block"
    /\ call.text = <<"B", "O", "B">>
    /\ Len(chain) >= 3
    /\ Len(stdout) = 2
    /\ stdout[1].block = 1
    /\ stdout[2].block = 2
    /\ tampered = {}

\* C14: save_to_file writes one record for every block, in chain order, and
\* record k carries the index, timestamp, nonce, previous_hash, hash,
\* difficulty, data and mining_time that block k holds at that moment.
C14_ExportMatchesChain ==
    call.name = "save_to_file" =>
        /\ Len(file) = Len(chain)
        /\ \A k \in DOMAIN chain :
              /\ file[k].index = k - 1
              /\ SameButData(file[k], chain[k])
              /\ file[k].data = chain[k].data

C14_Witness ==
    /\ call.name = "save_to_file"
    /\ Len(file) >= 3
    /\ 1 \in tampered
    /\ file[2].data = TamperedData
    /\ file[2].hash # calculate_hash(chain[2])

\* C15: add_block(data) on a chain of n blocks leaves those n blocks as they
\* are and adds one block: index n, the data given, previous_hash the stored
\* hash of the old tail (tampered or not), the chain's difficulty, and as its
\* hash the hash of its own final fields.
C15_AppendAddsOneLinkedBlock ==
    [][call'.name = "add_block" =>
        LET n == Len(chain)
            new == chain'[n + 1]
        IN  /\ Len(chain') = n + 1
            /\ SubSeq(chain', 1, n) = chain
            /\ new.index = n
            /\ new.data = call'.text
            /\ new.previous_hash = chain[n].hash
            /\ new.difficulty = difficulty
            /\ difficulty' = difficulty
            /\ new.hash = calculate_hash(new)
      ]_vars

C15_Witness ==
    /\ call.name = "add_block"
    /\ Len(chain) >= 3
    /\ 1 \in tampered
    /\ ~HashOk(chain, 1)
    /\ chain[3].previous_hash = chain[2].hash

\* The hash of block b's fields with nonce n meets b's difficulty.
Wins(b, n) ==
    startswith(calculate_hash([b EXCEPT !.nonce = n]).text, Zeros(b.difficulty))

\* C16: a block as mined (its data not overwritten since) carries the least
\* nonce n >= 0 whose hash starts with difficulty '0' characters, and its
\* stored hash is the hash at that nonce; with difficulty 0 the nonce is 0.
C16_NonceIsLeastWinner ==
    \A k \in DOMAIN chain :
        (k - 1) \notin tampered =>
            /\ chain[k].nonce >= 0
            /\ Wins(chain[k], chain[k].nonce)
            /\ \A n \in 0..(chain[k].nonce - 1) : ~Wins(chain[k], n)
            /\ chain[k].hash = calculate_hash(chain[k])
            /\ difficulty = 0 => chain[k].nonce = 0

C16_Witness ==
    /\ difficulty = 2
    /\ Len(chain) >= 2
    /\ 1 \notin tampered
    /\ chain[2].nonce >= 5
    /\ chain[1].nonce > 0

\* C19: every block's previous_hash is the stored hash of the block before
\* it, tampered or not, so is_chain_valid prints no "Invalid previous hash!":
\* a block it fails, it fails on its own hash.
C19_LinksSurviveTamper ==
    /\ \A i \in 1..(Len(chain) - 1) :
          /\ LinkOk(chain, i)
          /\ Validate(chain).lines[i].msg \in {"Valid.", "Invalid hash!"}
    /\ call.name = "is_chain_valid" =>
          \A i \in DOMAIN stdout : stdout[i].msg \in {"Valid.", "Invalid hash!"}

C19_Witness ==
    /\ call.name = "is_chain_valid"
    /\ Len(chain) >= 3
    /\ tampered = {1}
    /\ stdout[1].msg = "Invalid hash!"
    /\ stdout[2].msg = "Valid."

\* C20: once is_chain_valid would return False it would return False after
\* every later call.
C20_InvalidStaysInvalid ==
    [][~Validate(chain).valid => ~Validate(chain').valid]_vars

C20_Witness ==
    /\ call.name = "add_block"
    /\ Len(chain) >= 3
    /\ tampered = {1}
    /\ ~Validate(chain).valid
    /\ HashOk(chain, 2)

C17_AppendsSerialized ==
    \A i, j \in DOMAIN chain :
        i # j =>
            /\ chain[i].index # chain[j].index
            /\ chain[i].previous_hash # chain[j].previous_hash

\* C18: a block being mined has no hash; the hash it gets when mining ends
\* is not assigned again; only then is the block stored in the chain, so
\* every block of the chain has a hash, which no step changes.
C18_HashSetOnceBeforeStored ==
    /\ [](/\ \A k \in DOMAIN chain : chain[k].hash # None
          /\ \A t \in Callers :
                /\ (~Idle(t) /\ mining[t][1].pc = "mine") => mining[t][1].block.hash = None
                /\ (~Idle(t) /\ mining[t][1].pc = "store") => mining[t][1].block.hash # None)
    /\ [][/\ \A k \in DOMAIN chain : chain'[k].hash = chain[k].hash
          /\ \A t \in Callers :
                (~Idle(t) /\ mining[t][1].pc = "store" /\ ~Idle(t)')
                    => mining'[t][1].block.hash = mining[t][1].block.hash
          /\ \A t \in Callers :
                (~Idle(t) /\ Idle(t)' /\ mining[t][1].op = "add_block")
                    => chain'[Len(chain')].hash = mining[t][1].block.hash
         ]_vars

C18_Witness ==
    /\ At("t1", "add_block", "mine")
    /\ mining["t1"][1].block.nonce > 0
    /\ mining["t1"][1].block.hash = None
    /\ Len(chain) >= 2
    /\ 1 \in tampered
    /\ chain[2].hash # None

====
